---- MODULE Spec2Model ----
(***************************************************************************)
(* Adaptive clustering selection (adaptive_clustering_selector.py).        *)
(*                                                                         *)
(* Real numbers are fixed-point integers in millionths (1000000 = 1.0):    *)
(* silhouette, Davies-Bouldin, noise_ratio, the normalised sub-scores, the *)
(* composite quality score and the two thresholds.  The weights are in     *)
(* thousandths (300 = 0.3).  The Calinski-Harabasz index is in units.      *)
(* A label array is kept as its histogram: a function from label id to the *)
(* number of points carrying that label (the code reads the array only     *)
(* through set(labels), len(labels) and np.sum(labels == label)).          *)
(***************************************************************************)
EXTENDS Integers, Sequences, FiniteSets, TLC

\* Largest cluster id an algorithm may return; label ids are -1..MaxLabel.
MaxLabel == 1

\* float('inf'), the default of davies_bouldin.
Inf == 2000000000

\* Optional values: None, or a one-element sequence.
None == <<>>

Some(x) == <<x>>

Get(o) == o[1]

Min(a, b) == IF a <= b THEN a ELSE b

Max(a, b) == IF a >= b THEN a ELSE b

LabelIds == -1 .. MaxLabel

RECURSIVE SumOver(_, _)
SumOver(f, S) ==
    IF S = {} THEN 0
    ELSE LET x == CHOOSE y \in S : TRUE IN f[x] + SumOver(f, S \ {x})

\* len(labels)
LabelsLen(labels) == SumOver(labels, DOMAIN labels)

RECURSIVE SeqSum(_)
SeqSum(s) == IF s = <<>> THEN 0 ELSE Head(s) + SeqSum(Tail(s))

RECURSIVE SeqSumSq(_)
SeqSumSq(s) == IF s = <<>> THEN 0 ELSE Head(s) * Head(s) + SeqSumSq(Tail(s))

RECURSIVE ISqrtIter(_, _, _)
ISqrtIter(x, lo, hi) ==
    IF lo >= hi THEN lo
    ELSE LET mid == (lo + hi + 1) \div 2
         IN  IF mid * mid <= x THEN ISqrtIter(x, mid, hi)
                               ELSE ISqrtIter(x, lo, mid - 1)

\* floor(sqrt(x)) for 0 <= x < 2^31
ISqrt(x) == ISqrtIter(x, 0, 46340)

\* about 1000 * sqrt(d), scaled so that no intermediate leaves 32 bits
Sqrt1000(d) ==
    IF d < 2000 THEN ISqrt(d * 1000000)
    ELSE IF d < 200000 THEN ISqrt(d * 10000) * 10
    ELSE IF d < 20000000 THEN ISqrt(d * 100) * 100
    ELSE ISqrt(d) * 1000

\* a / b in millionths, by long division (exact floor for a <= 2000000, b <= 2000000)
Ratio(a, b) ==
    LET hi == (a * 1000) \div b
        lo == (((a * 1000) % b) * 1000) \div b
    IN  hi * 1000 + lo

\* np.std(cluster_sizes) / np.mean(cluster_sizes) in millionths:
\* sqrt(k*sum(s^2) - sum(s)^2) / sum(s), to three decimals.
StdOverMean(cluster_sizes) ==
    LET k == Len(cluster_sizes)
        s == SeqSum(cluster_sizes)
        d == k * SeqSumSq(cluster_sizes) - s * s
    IN  (Sqrt1000(d) \div s) * 1000

\* self.weights as set by __init__
DefaultWeights ==
    [silhouette |-> 300, calinski_harabasz |-> 200, davies_bouldin |-> 200,
     noise_penalty |-> 200, cluster_balance |-> 100]

cluster_balance_mut(cluster_sizes) ==
    IF Len(cluster_sizes) > 1
    THEN 1000000 - StdOverMean(cluster_sizes)
    ELSE IF Len(cluster_sizes) = 1 THEN 500000 ELSE 0

\* lines 241-248
cluster_balance(cluster_sizes) ==
    IF Len(cluster_sizes) > 1
    THEN (IF SeqSum(cluster_sizes) > 0
          THEN Max(0, 1000000 - StdOverMean(cluster_sizes)) ELSE 0)
    ELSE IF Len(cluster_sizes) = 1 THEN 500000 ELSE 0

silhouette_norm_mut(silhouette) == silhouette

\* line 230
silhouette_norm(silhouette) == (silhouette + 1000000) \div 2

calinski_norm(calinski_harabasz) ==
    IF calinski_harabasz > 0 THEN Min(calinski_harabasz * 1000, 1000000) ELSE 0

davies_norm(davies_bouldin) ==
    IF davies_bouldin # Inf THEN Max(0, 1000000 - davies_bouldin \div 10) ELSE 0

noise_penalty(noise_ratio) == Max(0, 1000000 - noise_ratio * 2)

\* _calculate_quality_score (n_clusters is a parameter the body never reads)
CalculateQualityScore(w, silhouette, calinski_harabasz, davies_bouldin, noise_ratio, cluster_sizes, n_clusters) ==
    ( w.silhouette * silhouette_norm(silhouette)
    + w.calinski_harabasz * calinski_norm(calinski_harabasz)
    + w.davies_bouldin * davies_norm(davies_bouldin)
    + w.noise_penalty * noise_penalty(noise_ratio)
    + w.cluster_balance * cluster_balance(cluster_sizes) ) \div 1000

\* set(labels)
UniqueLabels(labels) == {l \in DOMAIN labels : labels[l] > 0}

\* CPython's set: the table has 8 slots up to 4 entries and 32 slots up to 18
SetMask(used) == IF used <= 4 THEN 7 ELSE 31

\* the slot of an int: hash(x) & mask, with hash(x) = x except hash(-1) = -2
SetSlot(l, mask) == IF l = -1 THEN mask - 1 ELSE l % (mask + 1)

RECURSIVE SetToSeqBySlot(_, _)
SetToSeqBySlot(S, mask) ==
    IF S = {} THEN <<>>
    ELSE LET m == CHOOSE x \in S : \A y \in S : SetSlot(x, mask) <= SetSlot(y, mask)
         IN  <<m>> \o SetToSeqBySlot(S \ {m}, mask)

\* Iteration order of set(labels) without the sentinel: a set is walked slot
\* by slot.  Ids 0..5 sit in slots 0..5 (-1 in slot 6 of 8), so they come out
\* ascending; an id of 8 or more wraps around to a low slot.
ClusterLabelOrder(labels) ==
    LET u == UniqueLabels(labels)
        order == SetToSeqBySlot(u, SetMask(Cardinality(u)))
    IN  SelectSeq(order, LAMBDA l : l # -1)

NClusters_mut(labels) == Cardinality(UniqueLabels(labels))

NClusters(labels) ==
    Cardinality(UniqueLabels(labels)) - (IF -1 \in UniqueLabels(labels) THEN 1 ELSE 0)

NNoise_mut(labels) == LabelsLen(labels) - labels[-1]

NNoise(labels) == IF -1 \in UniqueLabels(labels) THEN labels[-1] ELSE 0

ClusterSizes(labels) ==
    LET order == ClusterLabelOrder(labels)
    IN  [i \in 1 .. Len(order) |-> labels[order[i]]]

\* noise_ratio = n_noise / len(labels) raises ZeroDivisionError on an empty array
MetricsRaises(labels) == LabelsLen(labels) = 0

IndicesComputed_mut(labels) == NClusters(labels) > 0

\* lines 181-189: the three indices are computed at all
IndicesComputed(labels) ==
    /\ NClusters(labels) > 1
    /\ (-1 \in UniqueLabels(labels)) =>
          /\ LabelsLen(labels) - labels[-1] > 1
          /\ Cardinality(UniqueLabels(labels) \ {-1}) > 1

\* lines 176-199.  index is the outcome of the three sklearn calls: their
\* values and which of them (if any) raises; an exception leaves the try
\* block, so the indices after the failing one keep their defaults.
IndexValues(labels, index) ==
    IF ~IndicesComputed(labels) \/ index.fails = "silhouette"
    THEN [silhouette |-> 0, calinski_harabasz |-> 0, davies_bouldin |-> Inf]
    ELSE IF index.fails = "calinski_harabasz"
    THEN [silhouette |-> index.silhouette, calinski_harabasz |-> 0,
          davies_bouldin |-> Inf]
    ELSE IF index.fails = "davies_bouldin"
    THEN [silhouette |-> index.silhouette,
          calinski_harabasz |-> index.calinski_harabasz, davies_bouldin |-> Inf]
    ELSE [silhouette |-> index.silhouette,
          calinski_harabasz |-> index.calinski_harabasz,
          davies_bouldin |-> index.davies_bouldin]

\* _calculate_clustering_metrics (processing_time, a wall-clock reading, is left out)
CalculateClusteringMetrics(w, labels, method, index) ==
    LET iv == IndexValues(labels, index)
        nr == Ratio(NNoise(labels), LabelsLen(labels))
    IN  [method |-> method,
         n_clusters |-> NClusters(labels),
         n_noise |-> NNoise(labels),
         silhouette_score |-> iv.silhouette,
         calinski_harabasz_score |-> iv.calinski_harabasz,
         davies_bouldin_score |-> iv.davies_bouldin,
         noise_ratio |-> nr,
         cluster_sizes |-> ClusterSizes(labels),
         quality_score |->
             CalculateQualityScore(w, iv.silhouette, iv.calinski_harabasz,
                                   iv.davies_bouldin, nr, ClusterSizes(labels),
                                   NClusters(labels))]

\* ClusteringResult (centroids, probabilities and hierarchy are carried through
\* unread and left out)
ClusteringResult(method, labels, metrics) ==
    [method |-> method, labels |-> labels, metrics |-> metrics]

-----------------------------------------------------------------------------
\* Inputs: what the external algorithms and index functions may hand back.

\* len(embeddings) of a call
EmbeddingSizes == {0, 1, 500, 3000, 3001, 5000}

NoiseCounts(n) == {0, n \div 4, (4 * n) \div 5, (9 * n) \div 10, n}

Shapes == {"equal", "skewed"}

\* size of cluster l when r points are split over k clusters
ShapeSize(r, k, shape, l) ==
    IF shape = "equal"
    THEN r \div k + (IF l = 0 THEN r % k ELSE 0)
    ELSE IF l = 0 THEN r - (k - 1) * (r \div (2 * k)) ELSE r \div (2 * k)

MkLabels(n, noise, k, shape) ==
    [l \in LabelIds |->
        IF l = -1 THEN noise
        ELSE IF l < k THEN ShapeSize(n - noise, k, shape, l) ELSE 0]

ValidSplit(n, noise, k, shape) ==
    /\ (k = 0) <=> (noise = n)
    /\ k > 0 => ShapeSize(n - noise, k, shape, k - 1) > 0
    /\ k <= 1 => shape = "equal"

\* label arrays of length n an algorithm may return
LabelArrays(n) ==
    {MkLabels(n, c[1], c[2], c[3]) :
        c \in {d \in NoiseCounts(n) \X (0 .. MaxLabel + 1) \X Shapes :
                  ValidSplit(n, d[1], d[2], d[3])}}

IndexFailures == {"none", "silhouette", "calinski_harabasz", "davies_bouldin"}

IndexOutcomes ==
    [silhouette : {-1000000, 1000000}, calinski_harabasz : {500, 2000},
     davies_bouldin : {500000}, fails : IndexFailures]

\* a weight setting that does not sum to 1.0
HeavyWeights ==
    [silhouette |-> 500, calinski_harabasz |-> 200, davies_bouldin |-> 200,
     noise_penalty |-> 200, cluster_balance |-> 100]

\* values the dict self.weights may hold: __init__ assigns the defaults, and
\* the attribute is public, so a client may store other entries
WeightSettings == {DefaultWeights, HeavyWeights}

\* run_hdbscan_clustering / run_kmeans_clustering when nothing raises: the
\* algorithm hands back a label array, the metrics are computed from it and
\* both are wrapped into a ClusteringResult
RunOutcomes(w, n, method) ==
    {ClusteringResult(method, labels,
                      CalculateClusteringMetrics(w, labels, method, index)) :
        labels \in {l \in LabelArrays(n) : ~MetricsRaises(l)},
        index \in IndexOutcomes}

Methods == {"HDBSCAN", "FAISS k-means"}

\* RunOutcomes, tabulated
OutcomeTable ==
    [w \in WeightSettings |->
        [n \in EmbeddingSizes |-> [m \in Methods |-> RunOutcomes(w, n, m)]]]

\* AdaptiveClusteringSelector(min_cluster_quality, max_noise_ratio): the
\* defaults and one other configuration
Configs ==
    {[min_cluster_quality |-> 300000, max_noise_ratio |-> 800000],
     [min_cluster_quality |-> 500000, max_noise_ratio |-> 250000]}

-----------------------------------------------------------------------------
VARIABLES
    min_cluster_quality,  \* self.min_cluster_quality
    max_noise_ratio,      \* self.max_noise_ratio
    weights,              \* self.weights
    pc,                   \* position of the running select_best_clustering call
    embeddings,           \* len(embeddings) of the call
    hdbscan_params,       \* min_cluster_size
    kmeans_params,        \* n_clusters
    hdbscan_result,       \* local: None or a ClusteringResult
    kmeans_result,        \* local: None or a ClusteringResult
    results,              \* local dict: key -> ClusteringResult
    returned,             \* None or the returned (best_result, selection_details)
    raised,               \* None or the RuntimeError that left the call
    hdbscan_runs,         \* calls of run_hdbscan_clustering made by the call
    kmeans_runs,          \* calls of run_kmeans_clustering made by the call
    score_input,          \* arguments of a direct _calculate_quality_score call
    score_output,         \* None or what that call returned
    metrics_input,        \* arguments of a direct _calculate_clustering_metrics call
    metrics_output,       \* None or how that call ended
    decisions,            \* the decisions earlier calls returned, as the caller holds them
    weights_id,           \* identity of the dict object self.weights refers to
    archive,              \* dict objects self.weights referred to before: identity -> value
    eval_input,           \* the ClusterEvaluator method called directly and its arguments
    eval_output           \* None or how that call ended

vars ==
    <<min_cluster_quality, max_noise_ratio, weights, pc, embeddings,
      hdbscan_params, kmeans_params, hdbscan_result, kmeans_result, results,
      returned, raised, hdbscan_runs, kmeans_runs, score_input, score_output,
      metrics_input, metrics_output, decisions, weights_id, archive,
      eval_input, eval_output>>

scoring == <<score_input, score_output>>

measuring == <<metrics_input, metrics_output>>

lifetime == <<decisions, weights_id, archive>>

evaluating == <<eval_input, eval_output>>

selector == <<min_cluster_quality, max_noise_ratio, weights>>

\* f"{x:.3f}": a score in millionths rounded to thousandths
Fmt3(x) == (x + 500) \div 1000

\* the f-string selection_reason: "<selected> selected: <phrase> (<values>)"
Reason(selected, phrase, values) ==
    [selected |-> selected, phrase |-> phrase, values |-> values]

\* line 276
IsLargeDataset_mut(n) == n >= 3000

IsLargeDataset(n) == n > 3000

\* lines 320-321
HdbscanAcceptable_mut(q, nr) == q >= min_cluster_quality

HdbscanAcceptable(q, nr) == q >= min_cluster_quality /\ nr <= max_noise_ratio

\* line 322
KmeansAcceptable_mut(q) == q > min_cluster_quality

KmeansAcceptable(q) == q >= min_cluster_quality

Init ==
    /\ \E c \in Configs :
          /\ min_cluster_quality = c.min_cluster_quality
          /\ max_noise_ratio = c.max_noise_ratio
    /\ weights = DefaultWeights
    /\ pc = "idle"
    /\ embeddings = 0
    /\ hdbscan_params = 0
    /\ kmeans_params = 0
    /\ hdbscan_result = None
    /\ kmeans_result = None
    /\ results = <<>>
    /\ returned = None
    /\ raised = None
    /\ hdbscan_runs = 0
    /\ kmeans_runs = 0
    /\ score_input = None
    /\ score_output = None
    /\ metrics_input = None
    /\ metrics_output = None
    /\ decisions = <<>>
    /\ weights_id = 0
    /\ archive = <<>>
    /\ eval_input = None
    /\ eval_output = None

\* lines 261-273: entry with the default parameters
CallWith(n) ==
    /\ pc = "idle"
    /\ embeddings' = n
    /\ hdbscan_params' = Max(10, n \div 20)
    /\ kmeans_params' = Min(8, Max(2, n \div 10))
    /\ pc' = "route"
    /\ UNCHANGED <<evaluating, selector, scoring, measuring, lifetime, hdbscan_result, kmeans_result, results, returned,
                   raised, hdbscan_runs, kmeans_runs>>

Call == \E n \in EmbeddingSizes : CallWith(n)

\* line 276
Route ==
    /\ pc = "route"
    /\ pc' = IF IsLargeDataset(embeddings) THEN "large_kmeans" ELSE "run_hdbscan"
    /\ UNCHANGED <<evaluating, selector, scoring, measuring, lifetime, embeddings, hdbscan_params, kmeans_params,
                   hdbscan_result, kmeans_result, results, returned, raised,
                   hdbscan_runs, kmeans_runs>>

\* lines 278-283: k-means on the large-dataset route succeeds
LargeKmeansReturns ==
    /\ pc = "large_kmeans"
    /\ \E r \in OutcomeTable[weights][embeddings]["FAISS k-means"] :
          /\ kmeans_result' = Some(r)
          /\ returned' =
                Some([best_result |-> r,
                      selection_details |->
                         [selection_reason |->
                             Reason("k-means", "large dataset optimization",
                                    <<embeddings>>)]])
    /\ kmeans_runs' = kmeans_runs + 1
    /\ pc' = "done"
    /\ UNCHANGED <<evaluating, selector, scoring, measuring, lifetime, embeddings, hdbscan_params, kmeans_params,
                   hdbscan_result, results, raised, hdbscan_runs>>

\* a failed k-means falls back to the two-candidate path
LargeKmeansRaises_mut ==
    /\ pc = "large_kmeans"
    /\ kmeans_runs' = kmeans_runs + 1
    /\ pc' = "run_hdbscan"
    /\ UNCHANGED <<evaluating, selector, scoring, measuring, lifetime, embeddings, hdbscan_params, kmeans_params,
                   hdbscan_result, kmeans_result, results, returned, raised,
                   hdbscan_runs>>

\* lines 284-286: k-means on the large-dataset route raises
LargeKmeansRaises ==
    /\ pc = "large_kmeans"
    /\ kmeans_runs' = kmeans_runs + 1
    /\ raised' = Some("Clustering failed for large dataset")
    /\ pc' = "failed"
    /\ UNCHANGED <<evaluating, selector, scoring, measuring, lifetime, embeddings, hdbscan_params, kmeans_params,
                   hdbscan_result, kmeans_result, results, returned, hdbscan_runs>>

\* the decision is taken as soon as HDBSCAN has returned
HdbscanReturns_mut ==
    /\ pc = "run_hdbscan"
    /\ \E r \in OutcomeTable[weights][embeddings]["HDBSCAN"] :
          /\ hdbscan_result' = Some(r)
          /\ results' = results @@ ("hdbscan" :> r)
    /\ hdbscan_runs' = hdbscan_runs + 1
    /\ pc' = "decide"
    /\ UNCHANGED <<evaluating, selector, scoring, measuring, lifetime, embeddings, hdbscan_params, kmeans_params,
                   kmeans_result, returned, raised, kmeans_runs>>

\* lines 291-295: run_hdbscan_clustering returns
HdbscanReturns ==
    /\ pc = "run_hdbscan"
    /\ \E r \in OutcomeTable[weights][embeddings]["HDBSCAN"] :
          /\ hdbscan_result' = Some(r)
          /\ results' = results @@ ("hdbscan" :> r)
    /\ hdbscan_runs' = hdbscan_runs + 1
    /\ pc' = "run_kmeans"
    /\ UNCHANGED <<evaluating, selector, scoring, measuring, lifetime, embeddings, hdbscan_params, kmeans_params,
                   kmeans_result, returned, raised, kmeans_runs>>

\* the exception of run_hdbscan_clustering leaves the call uncaught
HdbscanRaises_mut ==
    /\ pc = "run_hdbscan"
    /\ hdbscan_result' = None
    /\ hdbscan_runs' = hdbscan_runs + 1
    /\ raised' = Some("HDBSCAN failed")
    /\ pc' = "failed"
    /\ UNCHANGED <<evaluating, selector, scoring, measuring, lifetime, embeddings, hdbscan_params, kmeans_params,
                   kmeans_result, results, returned, kmeans_runs>>

\* lines 296-298: run_hdbscan_clustering raises (the algorithm, or the metrics
\* of an empty label array)
HdbscanRaises ==
    /\ pc = "run_hdbscan"
    /\ hdbscan_result' = None
    /\ hdbscan_runs' = hdbscan_runs + 1
    /\ pc' = "run_kmeans"
    /\ UNCHANGED <<evaluating, selector, scoring, measuring, lifetime, embeddings, hdbscan_params, kmeans_params,
                   kmeans_result, results, returned, raised, kmeans_runs>>

\* lines 301-305: run_kmeans_clustering returns
KmeansReturns ==
    /\ pc = "run_kmeans"
    /\ \E r \in OutcomeTable[weights][embeddings]["FAISS k-means"] :
          /\ kmeans_result' = Some(r)
          /\ results' = results @@ ("kmeans" :> r)
    /\ kmeans_runs' = kmeans_runs + 1
    /\ pc' = "decide"
    /\ UNCHANGED <<evaluating, selector, scoring, measuring, lifetime, embeddings, hdbscan_params, kmeans_params,
                   hdbscan_result, returned, raised, hdbscan_runs>>

\* lines 306-308: run_kmeans_clustering raises
KmeansRaises ==
    /\ pc = "run_kmeans"
    /\ kmeans_result' = None
    /\ kmeans_runs' = kmeans_runs + 1
    /\ pc' = "decide"
    /\ UNCHANGED <<evaluating, selector, scoring, measuring, lifetime, embeddings, hdbscan_params, kmeans_params,
                   hdbscan_result, results, returned, raised, hdbscan_runs>>

HigherQuality_mut(hq, kq) == hq >= kq

HigherQuality_flip(hq, kq) == hq < kq

\* lines 326 and 340: the comparison that lets HDBSCAN win
HigherQuality(hq, kq) == hq > kq

\* lines 314-345: both candidates succeeded
ChooseOfBoth(h, k) ==
    LET hdbscan_quality == h.metrics.quality_score
        kmeans_quality == k.metrics.quality_score
        hdbscan_acceptable ==
            HdbscanAcceptable(hdbscan_quality, h.metrics.noise_ratio)
        kmeans_acceptable == KmeansAcceptable(kmeans_quality)
    IN  IF hdbscan_acceptable /\ kmeans_acceptable
        THEN IF HigherQuality(hdbscan_quality, kmeans_quality)
             THEN [best_result |-> h,
                   selection_reason |->
                      Reason("HDBSCAN", "higher quality",
                             <<Fmt3(hdbscan_quality), Fmt3(kmeans_quality)>>)]
             ELSE [best_result |-> k,
                   selection_reason |->
                      Reason("k-means", "higher quality",
                             <<Fmt3(kmeans_quality), Fmt3(hdbscan_quality)>>)]
        ELSE IF hdbscan_acceptable
        THEN [best_result |-> h,
              selection_reason |->
                 Reason("HDBSCAN", "only acceptable method",
                        <<Fmt3(hdbscan_quality)>>)]
        ELSE IF kmeans_acceptable
        THEN [best_result |-> k,
              selection_reason |->
                 Reason("k-means", "only acceptable method",
                        <<Fmt3(kmeans_quality)>>)]
        ELSE IF HigherQuality(hdbscan_quality, kmeans_quality)
        THEN [best_result |-> h,
              selection_reason |->
                 Reason("HDBSCAN", "best of poor options",
                        <<Fmt3(hdbscan_quality)>>)]
        ELSE [best_result |-> k,
              selection_reason |->
                 Reason("k-means", "best of poor options",
                        <<Fmt3(kmeans_quality)>>)]

\* lines 347-352: exactly one candidate succeeded
ChooseOnly_mut(r, selected) ==
    [best_result |-> r,
     selection_reason |->
        Reason(selected,
               IF r.metrics.quality_score >= min_cluster_quality
               THEN "only successful method" ELSE "best of poor options",
               <<Fmt3(r.metrics.quality_score)>>)]

ChooseOnly(r, selected) ==
    [best_result |-> r,
     selection_reason |->
        Reason(selected, "only successful method",
               <<Fmt3(r.metrics.quality_score)>>)]

\* HDBSCAN is taken whenever it succeeded
Choose_mut(h, k) ==
    IF h # None THEN ChooseOnly(Get(h), "HDBSCAN")
    ELSE ChooseOnly(Get(k), "k-means")

\* lines 310-352
Choose(h, k) ==
    IF h # None /\ k # None THEN ChooseOfBoth(Get(h), Get(k))
    ELSE IF h # None THEN ChooseOnly(Get(h), "HDBSCAN")
    ELSE ChooseOnly(Get(k), "k-means")

\* lines 356-372
SelectionDetails(choice) ==
    [selected_method |-> choice.best_result.method,
     selection_reason |-> choice.selection_reason,
     comparison_results |->
        [m \in DOMAIN results |->
            [quality_score |-> results[m].metrics.quality_score,
             n_clusters |-> results[m].metrics.n_clusters,
             noise_ratio |-> results[m].metrics.noise_ratio,
             silhouette_score |-> results[m].metrics.silhouette_score]],
     quality_threshold |-> min_cluster_quality,
     noise_threshold |-> max_noise_ratio,
     weights |-> weights_id]    \* the dict object itself, not a copy

\* line 353: no candidate is left
NoCandidate_mut(h, k) == h = None \/ k = None

NoCandidate(h, k) == h = None /\ k = None

\* lines 310-376: a candidate is chosen and the decision returned
Decide ==
    /\ pc = "decide"
    /\ ~NoCandidate(hdbscan_result, kmeans_result)
    /\ LET choice == Choose(hdbscan_result, kmeans_result)
       IN  returned' = Some([best_result |-> choice.best_result,
                             selection_details |-> SelectionDetails(choice)])
    /\ pc' = "done"
    /\ UNCHANGED <<evaluating, selector, scoring, measuring, lifetime, embeddings, hdbscan_params, kmeans_params,
                   hdbscan_result, kmeans_result, results, raised,
                   hdbscan_runs, kmeans_runs>>

\* nothing is raised: a decision without a chosen outcome is returned
DecideRaises_mut ==
    /\ pc = "decide"
    /\ NoCandidate(hdbscan_result, kmeans_result)
    /\ returned' = Some([best_result |-> None,
                         selection_details |->
                            [selection_reason |-> Reason("", "", <<>>)]])
    /\ pc' = "done"
    /\ UNCHANGED <<evaluating, selector, scoring, measuring, lifetime, embeddings, hdbscan_params, kmeans_params,
                   hdbscan_result, kmeans_result, results, raised,
                   hdbscan_runs, kmeans_runs>>

\* lines 353-354
DecideRaises ==
    /\ pc = "decide"
    /\ NoCandidate(hdbscan_result, kmeans_result)
    /\ raised' = Some("Both clustering methods failed")
    /\ pc' = "failed"
    /\ UNCHANGED <<evaluating, selector, scoring, measuring, lifetime, embeddings, hdbscan_params, kmeans_params,
                   hdbscan_result, kmeans_result, results, returned,
                   hdbscan_runs, kmeans_runs>>

\* the steps of a running call
Step ==
    \/ Route
    \/ LargeKmeansReturns
    \/ LargeKmeansRaises
    \/ HdbscanReturns
    \/ HdbscanRaises
    \/ KmeansReturns
    \/ KmeansRaises
    \/ Decide
    \/ DecideRaises

Next == Call \/ Step

Spec == Init /\ [][Next]_vars

\* the call runs synchronously: once entered, each of its steps is taken
FairSpec == Spec /\ WF_vars(Step)

-----------------------------------------------------------------------------
\* One selector over several calls.  Its attributes are public: between calls
\* the client may store into the weights dict, bind a new dict or assign the
\* thresholds, and it keeps the decisions the calls returned.

\* Most decisions the client keeps
MaxDecisions == 2

\* Most times self.weights is bound to a new dict
MaxRebinds == 1

\* len(embeddings) of the calls made here
LifeSizes == {1}

\* the dict a reference leads to
WeightsAt(id) == IF id = weights_id THEN weights ELSE archive[id]

\* a decision as its holder reads it: the weights entry followed to its dict
Observed(d) ==
    [best_result |-> d.best_result,
     selection_details |->
        IF "weights" \in DOMAIN d.selection_details
        THEN [d.selection_details EXCEPT !.weights = WeightsAt(@)]
        ELSE d.selection_details]

LifeCall ==
    /\ Len(decisions) < MaxDecisions
    /\ \E n \in LifeSizes : CallWith(n)

\* lines 283 and 376: the call ends; the client keeps a returned decision
\* (as_returned is what it read at that moment) and the locals are gone
Finish ==
    /\ pc \in {"done", "failed"}
    /\ decisions' =
          IF returned # None
          THEN Append(decisions, [decision |-> Get(returned),
                                  as_returned |-> Observed(Get(returned))])
          ELSE decisions
    /\ pc' = "idle"
    /\ embeddings' = 0
    /\ hdbscan_params' = 0
    /\ kmeans_params' = 0
    /\ hdbscan_result' = None
    /\ kmeans_result' = None
    /\ results' = <<>>
    /\ returned' = None
    /\ raised' = None
    /\ hdbscan_runs' = 0
    /\ kmeans_runs' = 0
    /\ UNCHANGED <<evaluating, selector, scoring, measuring, weights_id, archive>>

\* selector.weights["silhouette"] = v: a store into the dict of lines 83-89
UpdateWeights ==
    /\ pc = "idle"
    /\ \E w \in WeightSettings :
          /\ w # weights
          /\ w = [weights EXCEPT !.silhouette = w.silhouette]
          /\ weights' = w
    /\ UNCHANGED <<evaluating, min_cluster_quality, max_noise_ratio, scoring, measuring, lifetime,
                   pc, embeddings, hdbscan_params, kmeans_params, hdbscan_result,
                   kmeans_result, results, returned, raised, hdbscan_runs,
                   kmeans_runs>>

\* selector.weights = {...}: the attribute is bound to a new dict, the old
\* dict stays as it is
RebindWeights ==
    /\ pc = "idle"
    /\ weights_id < MaxRebinds
    /\ \E w \in WeightSettings :
          /\ w # weights
          /\ weights' = w
    /\ weights_id' = weights_id + 1
    /\ archive' = archive @@ (weights_id :> weights)
    /\ UNCHANGED <<evaluating, min_cluster_quality, max_noise_ratio, scoring, measuring, decisions,
                   pc, embeddings, hdbscan_params, kmeans_params, hdbscan_result,
                   kmeans_result, results, returned, raised, hdbscan_runs,
                   kmeans_runs>>

\* selector.min_cluster_quality = q; selector.max_noise_ratio = r
SetThresholds ==
    /\ pc = "idle"
    /\ \E c \in Configs :
          /\ c.min_cluster_quality # min_cluster_quality
          /\ min_cluster_quality' = c.min_cluster_quality
          /\ max_noise_ratio' = c.max_noise_ratio
    /\ UNCHANGED <<evaluating, weights, scoring, measuring, lifetime, pc, embeddings,
                   hdbscan_params, kmeans_params, hdbscan_result, kmeans_result,
                   results, returned, raised, hdbscan_runs, kmeans_runs>>

\* the steps of a call that takes the two-candidate path
LifeStep ==
    \/ Route
    \/ HdbscanReturns
    \/ HdbscanRaises
    \/ KmeansReturns
    \/ KmeansRaises
    \/ Decide
    \/ DecideRaises

LifeNext ==
    LifeCall \/ LifeStep \/ Finish \/ UpdateWeights \/ RebindWeights \/ SetThresholds

LifeSpec == Init /\ [][LifeNext]_vars

-----------------------------------------------------------------------------
\* _calculate_quality_score called directly on metric values

\* Most clusters in a cluster_sizes argument
MaxClusters == 3

RECURSIVE SeqsUpTo(_, _)
SeqsUpTo(S, n) ==
    IF n = 0 THEN {<<>>}
    ELSE LET shorter == SeqsUpTo(S, n - 1)
         IN  shorter \cup {Append(q, x) : q \in shorter, x \in S}

\* silhouette in [-1, 1], Calinski-Harabasz >= 0, Davies-Bouldin >= 0 or inf,
\* noise_ratio in [0, 1], every cluster size >= 1
ScoreInputs ==
    [silhouette : {-1000000, 0, 250000, 1000000},
     calinski_harabasz : {0, 1, 1000, 50000},
     davies_bouldin : {0, 1000000, 10000000, 50000000, Inf},
     noise_ratio : {0, 250000, 500010, 1000000},
     cluster_sizes : SeqsUpTo({1, 5, 3000}, MaxClusters)]

ScoreInit ==
    /\ min_cluster_quality = 300000
    /\ max_noise_ratio = 800000
    /\ weights = DefaultWeights
    /\ pc = "score"
    /\ embeddings = 0
    /\ hdbscan_params = 0
    /\ kmeans_params = 0
    /\ hdbscan_result = None
    /\ kmeans_result = None
    /\ results = <<>>
    /\ returned = None
    /\ raised = None
    /\ hdbscan_runs = 0
    /\ kmeans_runs = 0
    /\ score_input \in {Some(i) : i \in ScoreInputs}
    /\ score_output = None
    /\ metrics_input = None
    /\ metrics_output = None
    /\ decisions = <<>>
    /\ weights_id = 0
    /\ archive = <<>>
    /\ eval_input = None
    /\ eval_output = None

\* lines 220-259
Score ==
    /\ pc = "score"
    /\ score_output = None
    /\ LET a == Get(score_input)
       IN  score_output' =
              Some(CalculateQualityScore(weights, a.silhouette, a.calinski_harabasz,
                                         a.davies_bouldin, a.noise_ratio,
                                         a.cluster_sizes, Len(a.cluster_sizes)))
    /\ UNCHANGED <<evaluating, selector, measuring, lifetime, pc, embeddings, hdbscan_params,
                   kmeans_params, hdbscan_result, kmeans_result, results, returned,
                   raised, hdbscan_runs, kmeans_runs, score_input>>

ScoreNext == Score

ScoreSpec == ScoreInit /\ [][ScoreNext]_vars

-----------------------------------------------------------------------------
\* _calculate_clustering_metrics called directly on a label array

\* Most points carrying one label
MaxCount == 2

\* label ids of these arrays: the sentinel and ids that need not be contiguous
\* (k-means leaves an id out when a cluster stays empty)
SparseIds == {-1, 1, 2, 8}

\* label arrays as histograms, the empty array included
SparseLabelArrays == [SparseIds -> 0 .. MaxCount]

MetricsInputs == [labels : SparseLabelArrays, index : IndexOutcomes]

\* lines 180-199: the sklearn functions the call reaches, in call order; the
\* one that raises ends the try block
IndexCalls(labels, index) ==
    IF ~IndicesComputed(labels) THEN <<>>
    ELSE IF index.fails = "silhouette" THEN <<"silhouette_score">>
    ELSE IF index.fails = "calinski_harabasz"
    THEN <<"silhouette_score", "calinski_harabasz_score">>
    ELSE <<"silhouette_score", "calinski_harabasz_score", "davies_bouldin_score">>

MetricsInit ==
    /\ min_cluster_quality = 300000
    /\ max_noise_ratio = 800000
    /\ weights \in WeightSettings
    /\ pc = "metrics"
    /\ embeddings = 0
    /\ hdbscan_params = 0
    /\ kmeans_params = 0
    /\ hdbscan_result = None
    /\ kmeans_result = None
    /\ results = <<>>
    /\ returned = None
    /\ raised = None
    /\ hdbscan_runs = 0
    /\ kmeans_runs = 0
    /\ score_input = None
    /\ score_output = None
    /\ metrics_input \in {Some(i) : i \in MetricsInputs}
    /\ metrics_output = None
    /\ decisions = <<>>
    /\ weights_id = 0
    /\ archive = <<>>
    /\ eval_input = None
    /\ eval_output = None

\* lines 157-218, the call returns
Metrics ==
    /\ pc = "metrics"
    /\ metrics_output = None
    /\ LET a == Get(metrics_input)
       IN  /\ ~MetricsRaises(a.labels)
           /\ metrics_output' =
                  Some([ended |-> "returned",
                        metrics |-> Some(CalculateClusteringMetrics(
                                            weights, a.labels, "HDBSCAN", a.index)),
                        index_calls |-> IndexCalls(a.labels, a.index)])
    /\ UNCHANGED <<evaluating, selector, scoring, lifetime, pc, embeddings, hdbscan_params,
                   kmeans_params, hdbscan_result, kmeans_result, results, returned,
                   raised, hdbscan_runs, kmeans_runs, metrics_input>>

\* line 167 on an empty array: 0 / 0
MetricsRaise ==
    /\ pc = "metrics"
    /\ metrics_output = None
    /\ MetricsRaises(Get(metrics_input).labels)
    /\ metrics_output' =
           Some([ended |-> "ZeroDivisionError", metrics |-> None, index_calls |-> <<>>])
    /\ UNCHANGED <<evaluating, selector, scoring, lifetime, pc, embeddings, hdbscan_params,
                   kmeans_params, hdbscan_result, kmeans_result, results, returned,
                   raised, hdbscan_runs, kmeans_runs, metrics_input>>

MetricsNext == Metrics \/ MetricsRaise

MetricsSpec == MetricsInit /\ [][MetricsNext]_vars

-----------------------------------------------------------------------------
\* Properties of select_best_clustering

Terminal == pc \in {"done", "failed"}

\* the call went down the two-candidate path and returned a decision
TwoPathDone == pc = "done" /\ embeddings <= 3000

BothSucceeded == hdbscan_result # None /\ kmeans_result # None

Chosen == Get(returned).best_result

Justification == Get(returned).selection_details.selection_reason

HQ == Get(hdbscan_result).metrics.quality_score

KQ == Get(kmeans_result).metrics.quality_score

HNoise == Get(hdbscan_result).metrics.noise_ratio

\* the gate as the specification words it
HOk == HQ >= min_cluster_quality /\ HNoise <= max_noise_ratio

KOk == KQ >= min_cluster_quality

\* C1: HDBSCAN is attempted iff n <= 3000.  With n > 3000 HDBSCAN is never
\* invoked and only k-means runs; when it succeeds it is the returned outcome
\* and the justification reads "large dataset optimization".  With n <= 3000
\* (3000 included) both candidates are attempted.
C1_LargeDatasetRouting ==
    /\ hdbscan_runs > 0 => embeddings <= 3000
    /\ Terminal =>
          /\ (hdbscan_runs = 1) <=> (embeddings <= 3000)
          /\ kmeans_runs = 1
    /\ (pc = "done" /\ embeddings > 3000) =>
          /\ hdbscan_result = None
          /\ Chosen = Get(kmeans_result)
          /\ Justification.selected = "k-means"
          /\ Justification.phrase = "large dataset optimization"

C1_Witness ==
    /\ pc = "done" /\ embeddings = 3001
    /\ hdbscan_runs = 0 /\ kmeans_runs = 1
    /\ Justification.phrase = "large dataset optimization"

\* C2: on the two-candidate path a candidate that raised does not stop the
\* other: both are attempted once whatever the first did, the one that raised
\* is absent from the comparison, and the other, if it succeeded, is the
\* returned decision.
C2_FailureIsolation ==
    (embeddings <= 3000 /\ pc \in {"decide", "done", "failed"}) =>
        /\ hdbscan_runs = 1 /\ kmeans_runs = 1
        /\ ("hdbscan" \in DOMAIN results) <=> (hdbscan_result # None)
        /\ ("kmeans" \in DOMAIN results) <=> (kmeans_result # None)
        /\ (pc = "done" /\ hdbscan_result = None) =>
              /\ Chosen = Get(kmeans_result)
              /\ DOMAIN Get(returned).selection_details.comparison_results = {"kmeans"}
        /\ (pc = "done" /\ kmeans_result = None) =>
              /\ Chosen = Get(hdbscan_result)
              /\ DOMAIN Get(returned).selection_details.comparison_results = {"hdbscan"}
        /\ (pc # "decide" /\ (hdbscan_result # None \/ kmeans_result # None)) =>
              pc = "done"

C2_Witness ==
    /\ TwoPathDone
    /\ hdbscan_result = None /\ hdbscan_runs = 1
    /\ kmeans_result # None /\ Chosen = Get(kmeans_result)

\* C3: the call ends in the fatal error iff every candidate it attempted
\* failed: both on the two-candidate path, k-means on the large-dataset path;
\* with at least one success a decision is returned.
C3_FatalIffAllFailed ==
    Terminal =>
        /\ (pc = "failed") <=> (hdbscan_result = None /\ kmeans_result = None)
        /\ (raised # None) <=> (pc = "failed")
        /\ (returned # None) <=> (pc = "done")
        /\ (raised # None /\ embeddings <= 3000) =>
              Get(raised) = "Both clustering methods failed"
        /\ (raised # None /\ embeddings > 3000) =>
              Get(raised) = "Clustering failed for large dataset"

C3_Witness ==
    /\ pc = "failed" /\ embeddings = 3000
    /\ hdbscan_runs = 1 /\ kmeans_runs = 1
    /\ Get(raised) = "Both clustering methods failed"

\* C4: with both candidates present, the decision treats HDBSCAN as acceptable
\* iff quality >= quality_threshold and noise_ratio <= noise_threshold, and
\* k-means as acceptable iff quality >= quality_threshold (its noise ratio is
\* not read); both comparisons are inclusive.  The two flags are read off the
\* branch the decision took.
C4_AcceptabilityFlags ==
    (TwoPathDone /\ BothSucceeded) =>
        /\ (Justification.phrase = "higher quality") <=> (HOk /\ KOk)
        /\ (Justification.phrase = "only acceptable method"
              /\ Justification.selected = "HDBSCAN") <=> (HOk /\ ~KOk)
        /\ (Justification.phrase = "only acceptable method"
              /\ Justification.selected = "k-means") <=> (~HOk /\ KOk)
        /\ (Justification.phrase = "best of poor options") <=> (~HOk /\ ~KOk)

\* both thresholds met with equality, and k-means noisier than the threshold
C4_Witness ==
    /\ TwoPathDone /\ BothSucceeded
    /\ HQ = min_cluster_quality /\ HNoise = max_noise_ratio
    /\ KQ = min_cluster_quality
    /\ Get(kmeans_result).metrics.noise_ratio > max_noise_ratio
    /\ Justification.phrase = "higher quality"

ChosenIsHdbscan == Chosen = Get(hdbscan_result) /\ Justification.selected = "HDBSCAN"

ChosenIsKmeans == Chosen = Get(kmeans_result) /\ Justification.selected = "k-means"

\* C5 as stated: with both candidates acceptable the chosen one has the
\* strictly higher composite score, and the justification reads "higher
\* quality" with the winner's score first.
C5_StrictlyHigherChosen ==
    (TwoPathDone /\ BothSucceeded /\ HOk /\ KOk) =>
        /\ Justification.phrase = "higher quality"
        /\ \/ ChosenIsHdbscan /\ HQ > KQ
              /\ Justification.values = <<Fmt3(HQ), Fmt3(KQ)>>
           \/ ChosenIsKmeans /\ KQ > HQ
              /\ Justification.values = <<Fmt3(KQ), Fmt3(HQ)>>

\* C5 (amended): with both candidates acceptable, HDBSCAN is chosen iff its
\* composite score is strictly higher than k-means'; otherwise, an exact tie
\* included, k-means is chosen.  The justification reads "higher quality" with
\* the chosen candidate's score first.
C5_HigherOrTieChosen ==
    (TwoPathDone /\ BothSucceeded /\ HOk /\ KOk) =>
        /\ Justification.phrase = "higher quality"
        /\ \/ ChosenIsHdbscan /\ HQ > KQ
              /\ Justification.values = <<Fmt3(HQ), Fmt3(KQ)>>
           \/ ChosenIsKmeans /\ KQ >= HQ
              /\ Justification.values = <<Fmt3(KQ), Fmt3(HQ)>>

C5_Witness ==
    /\ TwoPathDone /\ BothSucceeded /\ HOk /\ KOk
    /\ embeddings = 500
    /\ min_cluster_quality = 300000 /\ max_noise_ratio = 800000
    /\ HQ > KQ /\ ChosenIsHdbscan
    /\ Justification.phrase = "higher quality"

\* C6: with both candidates present and exactly one of them acceptable, that
\* one is chosen whatever the scores, and the justification reads "only
\* acceptable method".
C6_OnlyAcceptableChosen ==
    (TwoPathDone /\ BothSucceeded) =>
        /\ (HOk /\ ~KOk) =>
              ChosenIsHdbscan /\ Justification.phrase = "only acceptable method"
        /\ (~HOk /\ KOk) =>
              ChosenIsKmeans /\ Justification.phrase = "only acceptable method"

\* HDBSCAN scores strictly higher, is rejected for its noise alone, and loses
C6_Witness ==
    /\ TwoPathDone /\ BothSucceeded
    /\ HQ > KQ /\ HQ >= min_cluster_quality /\ HNoise > max_noise_ratio
    /\ KOk /\ ChosenIsKmeans
    /\ Justification.phrase = "only acceptable method"

\* C7: with both candidates present and neither acceptable a decision is
\* still returned: the chosen candidate has the higher composite score (none
\* scores above it) and the justification reads "best of poor options".
C7_BestOfPoorOptions ==
    (embeddings <= 3000 /\ Terminal /\ BothSucceeded /\ ~HOk /\ ~KOk) =>
        /\ pc = "done" /\ returned # None /\ raised = None
        /\ Justification.phrase = "best of poor options"
        /\ ChosenIsHdbscan \/ ChosenIsKmeans
        /\ Chosen.metrics.quality_score >= HQ
        /\ Chosen.metrics.quality_score >= KQ

C7_Witness ==
    /\ TwoPathDone /\ BothSucceeded /\ ~HOk /\ ~KOk
    /\ HQ > KQ /\ ChosenIsHdbscan
    /\ Justification.phrase = "best of poor options"

\* C8: when exactly one candidate is present on the two-candidate path it is
\* chosen without any gate, and the justification reads "only successful".
C8_OnlySuccessfulChosen ==
    TwoPathDone =>
        /\ (hdbscan_result # None /\ kmeans_result = None) =>
              ChosenIsHdbscan /\ Justification.phrase = "only successful method"
        /\ (hdbscan_result = None /\ kmeans_result # None) =>
              ChosenIsKmeans /\ Justification.phrase = "only successful method"

\* the lone candidate fails both gates and is chosen all the same
C8_Witness ==
    /\ TwoPathDone /\ hdbscan_result # None /\ kmeans_result = None
    /\ HQ < min_cluster_quality /\ HNoise > max_noise_ratio
    /\ ChosenIsHdbscan /\ Justification.phrase = "only successful method"

\* C9: every call reaches exactly one of DONE and FAILED.  DONE carries a
\* decision whose chosen outcome is a candidate that succeeded and whose
\* justification is not empty, and no error; FAILED carries an error and no
\* decision.
C9_ExactlyOneTerminal ==
    /\ [](pc = "done" =>
            /\ returned # None /\ raised = None
            /\ Chosen \in {Get(r) : r \in {hdbscan_result, kmeans_result} \ {None}}
            /\ Justification.selected # "" /\ Justification.phrase # "")
    /\ [](pc = "failed" => (raised # None /\ returned = None))
    /\ []((returned # None \/ raised # None) => Terminal)
    /\ (pc = "route") ~> Terminal

C9_Witness ==
    /\ pc = "done" /\ embeddings = 3000
    /\ hdbscan_result # None /\ kmeans_result = None
    /\ returned # None /\ raised = None

\* C10: the composite score lies in [0, 1] for every metric input in range
\* under the default weights, the degenerate case of fewer than two clusters
\* (silhouette 0, CH 0, DB inf) included.
C10_ScoreInUnitInterval ==
    score_output # None =>
        /\ Get(score_output) >= 0
        /\ Get(score_output) <= 1000000

C10_Witness ==
    /\ score_output # None
    /\ Len(Get(score_input).cluster_sizes) < 2
    /\ Get(score_input).silhouette = 0
    /\ Get(score_input).calinski_harabasz = 0
    /\ Get(score_input).davies_bouldin = Inf
    /\ Get(score_output) > 0

-----------------------------------------------------------------------------
\* Properties of _calculate_clustering_metrics and of the record a call returns

\* C12: a selection call on an empty embedding set fails fast with an
\* InvalidInputError before any candidate clustering is invoked, an error
\* distinguishable from the one raised when all candidates failed.
C12_EmptyInputFailsFast ==
    (embeddings = 0 /\ pc \notin {"idle", "route"}) =>
        /\ hdbscan_runs = 0
        /\ kmeans_runs = 0
        /\ raised # None => Get(raised) # "Both clustering methods failed"

MetricsReturned == metrics_output # None /\ Get(metrics_output).ended = "returned"

MetricsLabels == Get(metrics_input).labels

MetricsIndex == Get(metrics_input).index

MetricsOut == Get(Get(metrics_output).metrics)

\* the distinct labels of an array other than the sentinel
NonSentinelIds(labels) == {l \in DOMAIN labels : l # -1 /\ labels[l] > 0}

\* C13: with fewer than 2 non-sentinel clusters the metrics report
\* silhouette 0, Calinski-Harabasz 0 and Davies-Bouldin +infinity and no index
\* function is called; for a single cluster without noise the balance
\* sub-score is 0.5 and the composite score is a constant of the weights.
C13_DegenerateDefaults ==
    MetricsReturned =>
        /\ Cardinality(NonSentinelIds(MetricsLabels)) < 2 =>
              /\ MetricsOut.silhouette_score = 0
              /\ MetricsOut.calinski_harabasz_score = 0
              /\ MetricsOut.davies_bouldin_score = Inf
              /\ Get(metrics_output).index_calls = <<>>
        /\ (Cardinality(NonSentinelIds(MetricsLabels)) = 1 /\ MetricsLabels[-1] = 0) =>
              /\ cluster_balance(MetricsOut.cluster_sizes) = 500000
              /\ MetricsOut.quality_score =
                     ( weights.silhouette * 500000 + weights.noise_penalty * 1000000
                     + weights.cluster_balance * 500000 ) \div 1000

\* one cluster, no noise, and index functions that would have returned values
C13_Witness ==
    /\ MetricsReturned
    /\ Cardinality(NonSentinelIds(MetricsLabels)) = 1
    /\ MetricsLabels[-1] = 0
    /\ MetricsIndex.fails = "none"
    /\ weights = HeavyWeights
    /\ MetricsOut.quality_score = 500000

\* C14: for every non-empty label array noise_ratio is (number of labels
\* equal to -1) / n, lies in [0, 1], and is 0 with noise count 0 when no label
\* is the sentinel.
C14_NoiseRatio ==
    MetricsReturned =>
        LET n == SumOver(MetricsLabels, DOMAIN MetricsLabels)
            c == MetricsLabels[-1]
            nr == MetricsOut.noise_ratio
        IN  /\ n > 0
            /\ MetricsOut.n_noise = c
            /\ nr * n <= c * 1000000
            /\ c * 1000000 < (nr + 1) * n
            /\ nr >= 0
            /\ nr <= 1000000
            /\ c = 0 => nr = 0

\* one of three labels is the sentinel
C14_Witness ==
    /\ MetricsReturned
    /\ MetricsLabels[-1] = 1
    /\ LabelsLen(MetricsLabels) = 3
    /\ MetricsOut.noise_ratio = 333333

\* ids a renaming may give to the clusters
RenamedIds == {0, 1, 2, 8}

\* injective renamings of the non-sentinel ids
Renamings ==
    {f \in [SparseIds \ {-1} -> RenamedIds] :
        \A a, b \in DOMAIN f : a # b => f[a] # f[b]}

\* the array with every non-sentinel label l replaced by f[l]
Rename(labels, f) ==
    [l \in {-1} \cup RenamedIds |->
        IF l = -1 THEN labels[-1]
        ELSE IF \E a \in DOMAIN f : f[a] = l
        THEN labels[CHOOSE a \in DOMAIN f : f[a] = l]
        ELSE 0]

\* C15: n_clusters is the number of distinct labels other than -1, and the
\* same number results for the array with its non-sentinel ids renamed
\* injectively, the sentinel kept.
C15_ClusterCount ==
    MetricsReturned =>
        /\ MetricsOut.n_clusters = Cardinality(NonSentinelIds(MetricsLabels))
        /\ \A f \in Renamings :
              CalculateClusteringMetrics(weights, Rename(MetricsLabels, f),
                                         "HDBSCAN", MetricsIndex).n_clusters
                 = MetricsOut.n_clusters

\* noise and two clusters
C15_Witness ==
    /\ MetricsReturned
    /\ MetricsLabels[-1] > 0
    /\ NonSentinelIds(MetricsLabels) = {2, 8}
    /\ MetricsOut.n_clusters = 2

\* the ids of a set in ascending order
RECURSIVE SetToSeqAsc(_)
SetToSeqAsc(S) ==
    IF S = {} THEN <<>>
    ELSE LET m == CHOOSE x \in S : \A y \in S : x <= y
         IN  <<m>> \o SetToSeqAsc(S \ {m})

\* C16: cluster_sizes has one entry per non-sentinel label, none for -1, and
\* the entries are in ascending order of the label value, for every label
\* array.
C16_SizesInLabelOrder ==
    MetricsReturned =>
        LET asc == SetToSeqAsc(NonSentinelIds(MetricsLabels))
        IN  MetricsOut.cluster_sizes = [i \in 1 .. Len(asc) |-> MetricsLabels[asc[i]]]

\* the index function named, and only it, raises in a call that reaches it
OnlyFails(index) ==
    /\ MetricsReturned
    /\ MetricsIndex.fails = index
    /\ Cardinality(NonSentinelIds(MetricsLabels)) > 1

\* C17: when exactly one of the three index computations fails, that index
\* has its default (0, 0, +infinity), the other two have their computed
\* values whichever one failed, and the call returns a record with a
\* composite score.
C17_OnlyFailedIndexDefaults ==
    /\ OnlyFails("silhouette") =>
          /\ MetricsOut.silhouette_score = 0
          /\ MetricsOut.calinski_harabasz_score = MetricsIndex.calinski_harabasz
          /\ MetricsOut.davies_bouldin_score = MetricsIndex.davies_bouldin
    /\ OnlyFails("calinski_harabasz") =>
          /\ MetricsOut.silhouette_score = MetricsIndex.silhouette
          /\ MetricsOut.calinski_harabasz_score = 0
          /\ MetricsOut.davies_bouldin_score = MetricsIndex.davies_bouldin
    /\ OnlyFails("davies_bouldin") =>
          /\ MetricsOut.silhouette_score = MetricsIndex.silhouette
          /\ MetricsOut.calinski_harabasz_score = MetricsIndex.calinski_harabasz
          /\ MetricsOut.davies_bouldin_score = Inf

\* C18: every decision returned, on the large-dataset route and on the
\* two-candidate route, records the chosen outcome, the considered outcomes,
\* the justification and the thresholds applied.
C18_DecisionIsComplete ==
    returned # None =>
        /\ Get(returned).best_result # None
        /\ {"selection_reason", "comparison_results", "quality_threshold",
            "noise_threshold"} \subseteq DOMAIN Get(returned).selection_details

\* C20: within one call each candidate is invoked at most once, and HDBSCAN
\* is not tried after k-means failed on the large-dataset route.
C20_NoRetries ==
    /\ hdbscan_runs <= 1
    /\ kmeans_runs <= 1
    /\ (Terminal /\ embeddings > 3000) => hdbscan_runs = 0
    /\ (pc = "failed" /\ embeddings > 3000) =>
          Get(raised) = "Clustering failed for large dataset"

\* k-means failed on the large-dataset route
C20_Witness ==
    /\ pc = "failed"
    /\ embeddings = 3001
    /\ kmeans_runs = 1
    /\ hdbscan_runs = 0

\* sum of the five weights, in thousandths
WeightSum(w) ==
    w.silhouette + w.calinski_harabasz + w.davies_bouldin + w.noise_penalty
    + w.cluster_balance

\* C11: the weights sum to 1.0 whenever a score is computed: a selector whose
\* weights do not sum to 1.0 rejects the call with an error and computes no
\* composite score.
C11_WeightsSumToOne ==
    (WeightSum(weights) # 1000 /\ pc \notin {"idle", "route"}) =>
        /\ hdbscan_result = None
        /\ kmeans_result = None
        /\ returned = None

\* C19: a returned decision is immutable: after later calls and after changes
\* to the selector's weights or thresholds every decision reads as it did
\* when it was returned, recorded weights and thresholds included.
C19_DecisionsImmutable ==
    \A i \in 1 .. Len(decisions) :
        Observed(decisions[i].decision) = decisions[i].as_returned

-----------------------------------------------------------------------------
\* Further properties of select_best_clustering

TwoPathFailed == pc = "failed" /\ embeddings <= 3000

\* the chosen candidate passes the gate the specification words
ChosenOk == IF Justification.selected = "HDBSCAN" THEN HOk ELSE KOk

ThresholdOptions == {1000, 3000, 5000}

\* C22: the size above which HDBSCAN is skipped is the configured
\* large_dataset_threshold: for any configured T a call with n > T skips
\* HDBSCAN and a call with n <= T attempts both candidates.
C22_ConfiguredThreshold ==
    \A T \in ThresholdOptions :
        Terminal =>
            /\ embeddings > T => hdbscan_runs = 0
            /\ embeddings <= T => (hdbscan_runs = 1 /\ kmeans_runs = 1)

\* C27: with both candidates present and exactly equal scores k-means is
\* chosen, as "higher quality" when both are acceptable and as "best of poor
\* options" when neither is; HDBSCAN is chosen over a present k-means only
\* with a strictly greater score or when it alone is acceptable.
C27_TieGoesToKmeans ==
    (TwoPathDone /\ BothSucceeded) =>
        /\ HQ = KQ =>
              /\ ChosenIsKmeans
              /\ (HOk /\ KOk) => Justification.phrase = "higher quality"
              /\ (~HOk /\ ~KOk) => Justification.phrase = "best of poor options"
        /\ ChosenIsHdbscan => (HQ > KQ \/ (HOk /\ ~KOk))

\* a tie of two candidates that both miss the quality threshold
C27_Witness ==
    /\ TwoPathDone /\ BothSucceeded
    /\ HQ = KQ /\ ~HOk /\ ~KOk
    /\ ChosenIsKmeans
    /\ Justification.phrase = "best of poor options"

\* C28: the chosen outcome is a candidate that succeeded in this call, and
\* when some successful candidate is acceptable the chosen one is acceptable.
C28_AcceptableIfAny ==
    TwoPathDone =>
        /\ \/ hdbscan_result # None /\ ChosenIsHdbscan
           \/ kmeans_result # None /\ ChosenIsKmeans
        /\ ((hdbscan_result # None /\ HOk) \/ (kmeans_result # None /\ KOk)) => ChosenOk

\* HDBSCAN scores higher but is too noisy; the acceptable k-means is chosen
C28_Witness ==
    /\ TwoPathDone /\ BothSucceeded
    /\ HQ > KQ /\ ~HOk /\ KOk
    /\ ChosenIsKmeans /\ ChosenOk
    /\ embeddings = 3000

\* C29: in every decision of the two-candidate path selected_method is one of
\* the keys of comparison_results, so looking it up among the compared
\* methods succeeds.
C29_SelectedAmongCompared ==
    TwoPathDone =>
        Get(returned).selection_details.selected_method
            \in DOMAIN Get(returned).selection_details.comparison_results

DefaultSetting ==
    /\ min_cluster_quality = 300000
    /\ max_noise_ratio = 800000
    /\ weights = DefaultWeights

Succeeded == {Get(r) : r \in {hdbscan_result, kmeans_result} \ {None}}

OneClusterNoNoise(r) == r.metrics.n_clusters = 1 /\ r.metrics.n_noise = 0

AllNoise(r) == r.metrics.n_clusters = 0 /\ r.metrics.noise_ratio = 1000000

\* C30: with the default weights and thresholds an outcome of one cluster
\* without noise scores 0.40 and passes the gate, so it is never set aside
\* for a candidate that scores lower or fails the gate; an all-noise outcome
\* scores 0.15 and never passes the gate.
C30_DegenerateScores ==
    DefaultSetting =>
        /\ \A r \in Succeeded :
              /\ OneClusterNoNoise(r) =>
                    /\ r.metrics.quality_score = 400000
                    /\ r.metrics.quality_score >= min_cluster_quality
              /\ AllNoise(r) =>
                    /\ r.metrics.quality_score = 150000
                    /\ r.metrics.quality_score < min_cluster_quality
        /\ (TwoPathDone /\ BothSucceeded) =>
              /\ (\E r \in Succeeded : OneClusterNoNoise(r)) =>
                    /\ Justification.phrase # "best of poor options"
                    /\ Chosen.metrics.quality_score >= 400000
                    /\ ChosenOk
              /\ AllNoise(Chosen) => Justification.phrase = "best of poor options"

\* one cluster without noise is chosen over an acceptable two-cluster candidate
C30_Witness ==
    /\ DefaultSetting
    /\ TwoPathDone /\ BothSucceeded
    /\ OneClusterNoNoise(Get(kmeans_result))
    /\ Get(hdbscan_result).metrics.n_clusters = 2
    /\ HOk /\ HQ < KQ
    /\ ChosenIsKmeans
    /\ Justification.phrase = "higher quality"

-----------------------------------------------------------------------------
\* ClusterEvaluator (scripts/evaluation.py): its methods called directly

\* Most points of a label array
MaxPoints == 3

\* a point: its label and one number, the one-dimensional feature for
\* calculate_separation_metrics, the score for calculate_cluster_statistics
\* (whole numbers, 2 meaning 2.0)
EvalPoints == [label : {-1, 0, 1}, value : {0, 2}]

PointSeqs == SeqsUpTo(EvalPoints, MaxPoints)

\* the values a metrics dict may hold under its three keys read here; None is
\* a missing silhouette or Davies-Bouldin value, or no balance_score key
AssessedMetrics ==
    [silhouette_score :
        {None} \cup {Some(v) : v \in {-1000000, 0, 249999, 250000, 250001, 500000,
                                      500001, 700000, 700001, 1000000}},
     davies_bouldin_score :
        {None} \cup {Some(v) : v \in {0, 999999, 1000000, 1999999, 2000000,
                                      2000001, 5000000}},
     balance_score :
        {None} \cup {Some(v) : v \in {0, 499999, 500000, 650000, 800000,
                                      800001, 1000000}}]

EvalInputs ==
    {[op |-> "generate_quality_assessment", metrics |-> Some(m), points |-> <<>>] :
        m \in AssessedMetrics}
    \cup {[op |-> o, metrics |-> None, points |-> q] :
            o \in {"calculate_cluster_statistics", "calculate_separation_metrics"},
            q \in PointSeqs}

NoItems == [strengths |-> <<>>, weaknesses |-> <<>>, recommendations |-> <<>>]

Strength(text) == [NoItems EXCEPT !.strengths = <<text>>]

Weakness(text) == [NoItems EXCEPT !.weaknesses = <<text>>]

WeaknessWith(text, recommendation) ==
    [NoItems EXCEPT !.weaknesses = <<text>>, !.recommendations = <<recommendation>>]

\* lines 251-262
SilhouetteItems(silhouette) ==
    IF silhouette = None THEN NoItems
    ELSE IF Get(silhouette) > 700000
    THEN Strength("Excellent cluster separation (high silhouette score)")
    ELSE IF Get(silhouette) > 500000 THEN Strength("Good cluster separation")
    ELSE IF Get(silhouette) > 250000 THEN Weakness("Moderate cluster separation")
    ELSE WeaknessWith("Poor cluster separation (low silhouette score)",
                      "Consider adjusting the number of clusters")

\* lines 264-273
DaviesBouldinItems(davies_bouldin) ==
    IF davies_bouldin = None THEN NoItems
    ELSE IF Get(davies_bouldin) < 1000000
    THEN Strength("Well-separated clusters (low Davies-Bouldin score)")
    ELSE IF Get(davies_bouldin) < 2000000 THEN Weakness("Moderate cluster overlap")
    ELSE WeaknessWith("High cluster overlap",
                      "Consider feature engineering or different clustering approach")

BalanceItems_mut(balance_score) ==
    IF balance_score >= 800000 THEN Strength("Well-balanced cluster sizes")
    ELSE IF balance_score < 500000
    THEN WeaknessWith("Imbalanced cluster sizes",
                      "Consider balancing techniques or adjusting cluster parameters")
    ELSE NoItems

\* lines 276-281
BalanceItems(balance_score) ==
    IF balance_score > 800000 THEN Strength("Well-balanced cluster sizes")
    ELSE IF balance_score < 500000
    THEN WeaknessWith("Imbalanced cluster sizes",
                      "Consider balancing techniques or adjusting cluster parameters")
    ELSE NoItems

\* lines 284-289
OverallQuality(strengths, weaknesses) ==
    IF Len(strengths) > Len(weaknesses) THEN "good"
    ELSE IF Len(weaknesses) > Len(strengths) THEN "poor"
    ELSE "moderate"

\* generate_quality_assessment
GenerateQualityAssessment(metrics) ==
    LET s == SilhouetteItems(metrics.silhouette_score)
        d == DaviesBouldinItems(metrics.davies_bouldin_score)
        \* metrics.get('balance_score', 0)
        b == BalanceItems(IF metrics.balance_score = None THEN 0
                          ELSE Get(metrics.balance_score))
        strengths == s.strengths \o d.strengths \o b.strengths
        weaknesses == s.weaknesses \o d.weaknesses \o b.weaknesses
    IN  [overall_quality |-> OverallQuality(strengths, weaknesses),
         strengths |-> strengths,
         weaknesses |-> weaknesses,
         recommendations |-> s.recommendations \o d.recommendations \o b.recommendations]

\* np.unique(labels): the distinct labels, ascending, the sentinel -1 among them
UniquePointLabels_mut(points) ==
    SetToSeqAsc({points[i].label : i \in DOMAIN points} \ {-1})

UniquePointLabels(points) == SetToSeqAsc({points[i].label : i \in DOMAIN points})

\* values[labels == label]
RECURSIVE ValuesOf(_, _)
ValuesOf(points, label) ==
    IF points = <<>> THEN <<>>
    ELSE (IF Head(points).label = label THEN <<Head(points).value>> ELSE <<>>)
         \o ValuesOf(Tail(points), label)

RECURSIVE SeqMin(_)
SeqMin(q) == IF Len(q) = 1 THEN q[1] ELSE Min(q[1], SeqMin(Tail(q)))

RECURSIVE SeqMax(_)
SeqMax(q) == IF Len(q) = 1 THEN q[1] ELSE Max(q[1], SeqMax(Tail(q)))

\* np.mean(q) in millionths
Mean(q) == Ratio(SeqSum(q), Len(q))

\* np.std(q) in millionths, to three decimals: sqrt(k*sum(q^2) - sum(q)^2) / k
Std(q) ==
    (Sqrt1000(Len(q) * SeqSumSq(q) - SeqSum(q) * SeqSum(q)) \div Len(q)) * 1000

\* np.var(q) in millionths
Var(q) == Ratio(Len(q) * SeqSumSq(q) - SeqSum(q) * SeqSum(q), Len(q) * Len(q))

\* lines 109-121: the entry of one label in cluster_distribution
ClusterDistribution(points, label) ==
    LET cluster_scores == ValuesOf(points, label)
    IN  [size |-> Len(cluster_scores),
         proportion |-> Ratio(Len(cluster_scores), Len(points)),
         score_mean |-> Mean(cluster_scores),
         score_std |-> Std(cluster_scores),
         score_min |-> SeqMin(cluster_scores) * 1000000,
         score_max |-> SeqMax(cluster_scores) * 1000000]

\* lines 124-127; ideal_size is kept as the fraction len(labels) / n_clusters
BalanceScore(cluster_sizes, n_samples, n_clusters) ==
    Max(0, 1000000 - Ratio(Std(cluster_sizes) * n_clusters, n_samples * 1000000))

\* calculate_cluster_statistics (labels not empty)
CalculateClusterStatistics(points) ==
    LET unique_labels == UniquePointLabels(points)
        n_clusters == Len(unique_labels)
        cluster_sizes ==
            [i \in 1 .. n_clusters |-> Len(ValuesOf(points, unique_labels[i]))]
    IN  [n_clusters |-> n_clusters,
         n_samples |-> Len(points),
         cluster_distribution |->
            [l \in {unique_labels[i] : i \in 1 .. n_clusters} |->
                ClusterDistribution(points, l)],
         intra_cluster_variance |-> <<>>,
         cluster_separation |-> <<>>,
         balance_score |-> BalanceScore(cluster_sizes, Len(points), n_clusters)]

\* lines 147-151: the centroid of each label, of one-dimensional features
Centroids(points) ==
    LET unique_labels == UniquePointLabels(points)
    IN  [l \in {unique_labels[i] : i \in 1 .. Len(unique_labels)} |->
            Mean(ValuesOf(points, l))]

\* lines 167-172: the distances of the pairs i < j of unique_labels
InterClusterDistances(points) ==
    LET unique_labels == UniquePointLabels(points)
        centroids == Centroids(points)
        pairs == {p \in (1 .. Len(unique_labels)) \X (1 .. Len(unique_labels)) :
                     p[1] < p[2]}
        dist == [p \in pairs |->
                    LET d == centroids[unique_labels[p[1]]]
                               - centroids[unique_labels[p[2]]]
                    IN  IF d < 0 THEN -d ELSE d]
    IN  [count |-> Cardinality(pairs), sum |-> SumOver(dist, pairs)]

\* calculate_separation_metrics (labels not empty).  separation_score is
\* avg / (intra + 1e-8): with intra = 0 it is avg * 1e8, kept as Inf.
CalculateSeparationMetrics(points) ==
    LET unique_labels == UniquePointLabels(points)
        n_clusters == Len(unique_labels)
        variance == [i \in 1 .. n_clusters |-> Var(ValuesOf(points, unique_labels[i]))]
        intra_cluster_variance == SeqSum(variance) \div n_clusters
        inter == InterClusterDistances(points)
        avg_inter_cluster_distance ==
            IF inter.count > 0 THEN inter.sum \div inter.count ELSE 0
    IN  [intra_cluster_variance |-> intra_cluster_variance,
         avg_inter_cluster_distance |-> avg_inter_cluster_distance,
         separation_score |->
            IF avg_inter_cluster_distance = 0 THEN 0
            ELSE IF intra_cluster_variance = 0 THEN Inf
            ELSE Ratio(avg_inter_cluster_distance, intra_cluster_variance)]

EvalInit ==
    /\ min_cluster_quality = 300000
    /\ max_noise_ratio = 800000
    /\ weights = DefaultWeights
    /\ pc = "evaluate"
    /\ embeddings = 0
    /\ hdbscan_params = 0
    /\ kmeans_params = 0
    /\ hdbscan_result = None
    /\ kmeans_result = None
    /\ results = <<>>
    /\ returned = None
    /\ raised = None
    /\ hdbscan_runs = 0
    /\ kmeans_runs = 0
    /\ score_input = None
    /\ score_output = None
    /\ metrics_input = None
    /\ metrics_output = None
    /\ decisions = <<>>
    /\ weights_id = 0
    /\ archive = <<>>
    /\ eval_input \in {Some(i) : i \in EvalInputs}
    /\ eval_output = None

\* the call op ends as ended with value; nothing else changes
EvalEnds(op, ended, value) ==
    /\ pc = "evaluate"
    /\ eval_output = None
    /\ Get(eval_input).op = op
    /\ eval_output' = Some([ended |-> ended, value |-> value])
    /\ UNCHANGED <<selector, scoring, measuring, lifetime, pc, embeddings,
                   hdbscan_params, kmeans_params, hdbscan_result, kmeans_result,
                   results, returned, raised, hdbscan_runs, kmeans_runs, eval_input>>

\* lines 232-291
Assess ==
    /\ Get(eval_input).metrics # None
    /\ EvalEnds("generate_quality_assessment", "returned",
                GenerateQualityAssessment(Get(Get(eval_input).metrics)))

\* lines 84-129
ClusterStatistics ==
    /\ Get(eval_input).points # <<>>
    /\ EvalEnds("calculate_cluster_statistics", "returned",
                CalculateClusterStatistics(Get(eval_input).points))

\* line 125 on an empty array: len(labels) / n_clusters is 0 / 0
ClusterStatisticsRaise ==
    /\ Get(eval_input).points = <<>>
    /\ EvalEnds("calculate_cluster_statistics", "ZeroDivisionError", <<>>)

\* lines 131-185
SeparationMetrics ==
    /\ Get(eval_input).points # <<>>
    /\ EvalEnds("calculate_separation_metrics", "returned",
                CalculateSeparationMetrics(Get(eval_input).points))

\* line 164 on an empty array: 0.0 / 0
SeparationMetricsRaise ==
    /\ Get(eval_input).points = <<>>
    /\ EvalEnds("calculate_separation_metrics", "ZeroDivisionError", <<>>)

EvalNext ==
    \/ Assess
    \/ ClusterStatistics
    \/ ClusterStatisticsRaise
    \/ SeparationMetrics
    \/ SeparationMetricsRaise

EvalSpec == EvalInit /\ [][EvalNext]_vars

-----------------------------------------------------------------------------
\* Properties of ClusterEvaluator

EvalReturned(op) ==
    /\ eval_output # None
    /\ Get(eval_input).op = op
    /\ Get(eval_output).ended = "returned"

Assessed == EvalReturned("generate_quality_assessment")

AssessedInput == Get(Get(eval_input).metrics)

Assessment == Get(eval_output).value

InSeq(x, q) == \E i \in DOMAIN q : q[i] = x

\* how many entries of q are among the texts
CountIn(q, texts) == Cardinality({i \in DOMAIN q : q[i] \in texts})

SilhouetteTexts ==
    {"Excellent cluster separation (high silhouette score)", "Good cluster separation",
     "Moderate cluster separation", "Poor cluster separation (low silhouette score)"}

\* C23: for a silhouette value s that is not missing exactly one silhouette
\* item is recorded: the strength "excellent" iff s > 0.7; the weakness "poor"
\* with the recommendation to adjust the number of clusters iff s < 0.25; for
\* 0.25 <= s <= 0.7 the strength "good" (upper band) or the weakness
\* "moderate" (lower band), without recommendation.
C23_SilhouetteBands ==
    (Assessed /\ AssessedInput.silhouette_score # None) =>
        LET s == Get(AssessedInput.silhouette_score)
            a == Assessment
            adjust == InSeq("Consider adjusting the number of clusters", a.recommendations)
        IN  /\ CountIn(a.strengths, SilhouetteTexts)
                  + CountIn(a.weaknesses, SilhouetteTexts) = 1
            /\ InSeq("Excellent cluster separation (high silhouette score)", a.strengths)
                  <=> s > 700000
            /\ InSeq("Poor cluster separation (low silhouette score)", a.weaknesses)
                  <=> s < 250000
            /\ adjust <=> s < 250000
            /\ InSeq("Good cluster separation", a.strengths)
                  => (s >= 500000 /\ s <= 700000)
            /\ InSeq("Moderate cluster separation", a.weaknesses)
                  => (s >= 250000 /\ s <= 500000)

DaviesBouldinTexts ==
    {"Well-separated clusters (low Davies-Bouldin score)", "Moderate cluster overlap",
     "High cluster overlap"}

\* C24: for a Davies-Bouldin value d that is not missing exactly one item is
\* recorded: a strength iff d < 1.0; the weakness "moderate overlap" without
\* recommendation iff 1.0 <= d <= 2.0; the weakness "high overlap" with the
\* feature-engineering recommendation iff d > 2.0.
C24_DaviesBouldinBands ==
    (Assessed /\ AssessedInput.davies_bouldin_score # None) =>
        LET d == Get(AssessedInput.davies_bouldin_score)
            a == Assessment
        IN  /\ CountIn(a.strengths, DaviesBouldinTexts)
                  + CountIn(a.weaknesses, DaviesBouldinTexts) = 1
            /\ InSeq("Well-separated clusters (low Davies-Bouldin score)", a.strengths)
                  <=> d < 1000000
            /\ InSeq("Moderate cluster overlap", a.weaknesses)
                  <=> (d >= 1000000 /\ d <= 2000000)
            /\ InSeq("High cluster overlap", a.weaknesses) <=> d > 2000000
            /\ InSeq("Consider feature engineering or different clustering approach",
                     a.recommendations) <=> d > 2000000

\* C25: the overall label is "good" iff there are more strengths than
\* weaknesses, "poor" iff more weaknesses than strengths, "moderate" iff as
\* many of each, none included, and never "unknown"; balance_score adds a
\* strength iff > 0.8, a weakness with a recommendation iff < 0.5, and
\* nothing in between.
C25_OverallLabel ==
    Assessed =>
        LET a == Assessment
            b == AssessedInput.balance_score
        IN  /\ a.overall_quality = "good" <=> Len(a.strengths) > Len(a.weaknesses)
            /\ a.overall_quality = "poor" <=> Len(a.weaknesses) > Len(a.strengths)
            /\ a.overall_quality = "moderate" <=> Len(a.weaknesses) = Len(a.strengths)
            /\ a.overall_quality # "unknown"
            /\ Len(a.strengths) + Len(a.weaknesses)
                  = CountIn(a.strengths, SilhouetteTexts \cup DaviesBouldinTexts
                                         \cup {"Well-balanced cluster sizes"})
                    + CountIn(a.weaknesses, SilhouetteTexts \cup DaviesBouldinTexts
                                            \cup {"Imbalanced cluster sizes"})
            /\ b # None =>
                  /\ InSeq("Well-balanced cluster sizes", a.strengths) <=> Get(b) > 800000
                  /\ InSeq("Imbalanced cluster sizes", a.weaknesses) <=> Get(b) < 500000
                  /\ InSeq("Consider balancing techniques or adjusting cluster parameters",
                           a.recommendations) <=> Get(b) < 500000

\* no item at all: both values missing and a balance between the two bounds
C25_Witness ==
    /\ Assessed
    /\ AssessedInput.silhouette_score = None
    /\ AssessedInput.davies_bouldin_score = None
    /\ AssessedInput.balance_score = Some(800000)
    /\ Assessment.strengths = <<>>
    /\ Assessment.weaknesses = <<>>
    /\ Assessment.overall_quality = "moderate"

EvalPointsIn == Get(eval_input).points

\* the labels of the points other than the sentinel, ascending
RealClusters == SetToSeqAsc({EvalPointsIn[i].label : i \in DOMAIN EvalPointsIn} \ {-1})

\* C26: points labelled -1 form no cluster: avg_inter_cluster_distance is the
\* mean over the unordered pairs of non-sentinel clusters, 0 when there is no
\* such pair (one real cluster plus noise), and the cluster count that gives
\* ideal_size in balance_score leaves the sentinel out.
C26_NoiseIsNoCluster ==
    /\ EvalReturned("calculate_separation_metrics") =>
          LET c == [i \in 1 .. Len(RealClusters) |->
                       Mean(ValuesOf(EvalPointsIn, RealClusters[i]))]
              pairs == {p \in (DOMAIN c) \X (DOMAIN c) : p[1] < p[2]}
              dist == [p \in pairs |-> IF c[p[1]] < c[p[2]] THEN c[p[2]] - c[p[1]]
                                                            ELSE c[p[1]] - c[p[2]]]
          IN  Get(eval_output).value.avg_inter_cluster_distance =
                 IF pairs = {} THEN 0 ELSE SumOver(dist, pairs) \div Cardinality(pairs)
    /\ EvalReturned("calculate_cluster_statistics") =>
          Get(eval_output).value.n_clusters = Len(RealClusters)

====
